---- MODULE Spec2Model ----
(***************************************************************************)
(* CloudWatchLogDataTransformer: a Lambda handler that decodes batched     *)
(* CloudWatch Logs payloads, reshapes every log event into a record and    *)
(* puts the records to a Firehose delivery stream, retrying the records    *)
(* the stream reports as failed.                                           *)
(*                                                                         *)
(* Four specifications share the variables:                                *)
(*   Spec          one invocation of lambda_handler (maxAttempts is 20)    *)
(*   SpecDeliver   one call of putRecordsToFirehoseStream with any         *)
(*                 record batch and any maxAttempts, attemptsMade = 0      *)
(*   SpecInit      the module's initialisation (the logger's level)        *)
(*   SpecTransform one call of transformLogEvent                           *)
(***************************************************************************)
EXTENDS Integers, Sequences, FiniteSets, TLC

VARIABLES
    pc,             \* position of the program
    environ,        \* os.environ, restricted to LOG_LEVEL
    loggerLevel,    \* level of the root logger
    raised,         \* the exception that left the program, or NoException
    event,          \* the event passed to lambda_handler
    streamName,     \* lambda_handler's streamName
    k,              \* processRecords: index of the input item of the loop
    rV,             \* processRecords: the list it returns
    records,        \* putRecordsToFirehoseStream: records of the current frame
    attemptsMade,   \* putRecordsToFirehoseStream: attemptsMade of the current frame
    maxAttempts,    \* putRecordsToFirehoseStream: maxAttempts
    response,       \* putRecordsToFirehoseStream: response of the current frame
    failedRecords,  \* putRecordsToFirehoseStream: failedRecords of the current frame
    errMsg,         \* putRecordsToFirehoseStream: errMsg of the current frame
    logged,         \* the entries the latest step handed to the logger
    lastCall,       \* arguments of the latest client.put_record_batch call
    calls,          \* number of client calls of the current delivery run
    batch,          \* the record list the current delivery run was started with
    allErr,         \* every client call of the run raised or put a code on every record
    allFailed,     \* allErr, and every response of the run had FailedPutCount > 0
    started,        \* per input item: number of delivery runs started for it
    delivered,      \* input items whose delivery run returned normally
    acked,          \* records of the run a response has answered without an error code
    tIn,            \* SpecTransform: the arguments of transformLogEvent
    tOut            \* SpecTransform: the value transformLogEvent returned

vars == <<pc, environ, loggerLevel, raised, event, streamName, k, rV, records,
          attemptsMade, maxAttempts, response, failedRecords, errMsg, logged,
          lastCall, calls, batch, allErr, allFailed, started, delivered, acked, tIn,
          tOut>>

(***************************************************************************)
(* Bounds of the model.                                                    *)
(***************************************************************************)
MaxItems == 2       \* input items of one invocation
MaxEvents == 2      \* log events of one input item
MaxRecords == 3     \* records of a batch handed to SpecDeliver
MaxBudget == 3      \* largest maxAttempts handed to SpecDeliver
MaxEnvLen == 4      \* length of a LOG_LEVEL value built from EnvAlphabet
MaxArnLen == 3      \* length of a deliveryStreamArn built from ArnAlphabet

(***************************************************************************)
(* Program constants.                                                      *)
(***************************************************************************)
DefaultMaxAttempts == 20
MillisPerSecond == 1000

None == "None"
NoException == [type |-> "none"]

RECURSIVE SeqsUpTo(_, _)
SeqsUpTo(S, n) ==
    IF n = 0 THEN {<<>>}
    ELSE LET shorter == SeqsUpTo(S, n - 1)
         IN shorter \cup {Append(s, x) : s \in {t \in shorter : Len(t) = n - 1}, x \in S}

(***************************************************************************)
(* Module initialisation: the level of the root logger.                    *)
(***************************************************************************)
\* str.lower() on the characters the model uses.
LowerChar(c) ==
    CASE c = "I" -> "i" [] c = "N" -> "n" [] c = "F" -> "f" [] c = "O" -> "o"
      [] c = "W" -> "w" [] c = "A" -> "a" [] c = "R" -> "r" [] c = "D" -> "d"
      [] c = "E" -> "e" [] c = "B" -> "b" [] c = "U" -> "u" [] c = "G" -> "g"
      [] c = "C" -> "c" [] c = "T" -> "t" [] c = "L" -> "l" [] c = "V" -> "v"
      [] c = "S" -> "s"
      [] OTHER -> c

Lower(s) == [i \in DOMAIN s |-> LowerChar(s[i])]

\* The keys of the levels dict.
levelKeys ==
    {<<"c","r","i","t","i","c","a","l">>, <<"e","r","r","o","r">>, <<"w","a","r","n">>,
     <<"i","n","f","o">>, <<"d","e","b","u","g">>}

\* levels[key], for a key of the dict.
levels(key) ==
    CASE key = <<"c","r","i","t","i","c","a","l">> -> "CRITICAL"
      [] key = <<"e","r","r","o","r">> -> "ERROR"
      [] key = <<"w","a","r","n">> -> "WARNING"
      [] key = <<"i","n","f","o">> -> "INFO"
      [] key = <<"d","e","b","u","g">> -> "DEBUG"

\* dict.get(key): the value, or None when the key is absent. It never raises.
levelsGet(key) == IF key \in levelKeys THEN levels(key) ELSE None

\* os.getenv(name, default)
getenv(env, name, default) == IF name \in DOMAIN env THEN env[name] ELSE default

\* Logger.setLevel(level): raises TypeError unless level is a level.
setLevelRaises(level) == level \notin {"CRITICAL", "ERROR", "WARNING", "INFO", "DEBUG"}

EnvAlphabet == {"i", "I", "n", "f", "o", "x"}

EnvWords ==
    {<<"I","N","F","O">>, <<"W","a","r","n">>, <<"w","a","r","n">>,
     <<"w","a","r","n","i","n","g">>, <<"d","e","b","u","g">>, <<"D","E","B","U","G">>,
     <<"E","r","r","o","r">>, <<"e","r","r","o","r">>,
     <<"c","r","i","t","i","c","a","l">>, <<"C","R","I","T","I","C","A","L">>,
     <<"v","e","r","b","o","s","e">>, <<"t","r","a","c","e">>}

EnvValues == EnvWords \cup SeqsUpTo(EnvAlphabet, MaxEnvLen)

\* Lines 34-38. The except clause catches KeyError only.
ModuleInit ==
    /\ pc = "import"
    /\ LET level == levelsGet(Lower(getenv(environ, "LOG_LEVEL", <<"i","n","f","o">>)))
       IN IF setLevelRaises(level)
          THEN /\ pc' = "import_error"
               /\ raised' = [type |-> "TypeError"]
               /\ UNCHANGED loggerLevel
          ELSE /\ pc' = "imported"
               /\ loggerLevel' = level
               /\ UNCHANGED raised
    /\ UNCHANGED <<environ, event, streamName, k, rV, records, attemptsMade, maxAttempts,
                   response, failedRecords, errMsg, logged, lastCall, calls, batch,
                   allErr, allFailed, acked, started, delivered, tIn, tOut>>

(***************************************************************************)
(* Record Transformer.                                                     *)
(***************************************************************************)
\* Offset of the local timezone from UTC, in seconds (datetime.fromtimestamp
\* renders local time; the Lambda runtime's timezone is UTC).
TzOffsetSeconds == 0

\* Proleptic Gregorian date of a day number counted from 1970-01-01.
CivilFromDays(days) ==
    LET z == days + 719468
        era == z \div 146097
        doe == z - era * 146097
        yoe == (doe - (doe \div 1460) + (doe \div 36524) - (doe \div 146096)) \div 365
        doy == doe - (365 * yoe + (yoe \div 4) - (yoe \div 100))
        mp == (5 * doy + 2) \div 153
        d == doy - ((153 * mp + 2) \div 5) + 1
        m == IF mp < 10 THEN mp + 3 ELSE mp - 9
        y == yoe + era * 400 + (IF m <= 2 THEN 1 ELSE 0)
    IN <<y, m, d>>

\* datetime.fromtimestamp(ms / 1000.0).isoformat(): the fields of
\* YYYY-MM-DDTHH:MM:SS[.ffffff]; the fraction is left out when it is zero.
IsoFormat(ms) ==
    LET local == (ms \div MillisPerSecond) + TzOffsetSeconds
        micro == (ms % MillisPerSecond) * 1000
        sod == local % 86400
        hms == <<sod \div 3600, (sod % 3600) \div 60, sod % 60>>
        whole == CivilFromDays(local \div 86400) \o hms
    IN IF micro = 0 THEN whole ELSE Append(whole, micro)

\* The keys of the dict transformLogEvent builds, in insertion order.
TransformKeys ==
    <<"timestamp", "id", "type", "@message", "@owner", "@log_group", "@log_stream">>

\* transformLogEvent with the owner stored under '@log_group' too.
transformLogEvent_GroupIsOwner(logEvent, owner, logGroup, logStream) ==
    [key \in {TransformKeys[i] : i \in DOMAIN TransformKeys} |->
        CASE key = "timestamp" -> IsoFormat(logEvent.timestamp)
          [] key = "id" -> logEvent.id
          [] key = "type" -> "CloudWatchLogs"
          [] key = "@message" -> logEvent.message
          [] key = "@owner" -> owner
          [] key = "@log_group" -> owner
          [] key = "@log_stream" -> logStream]

\* Lines 40-49: the dict, as a function of its keys.
transformLogEvent(logEvent, owner, logGroup, logStream) ==
    [key \in {TransformKeys[i] : i \in DOMAIN TransformKeys} |->
        CASE key = "timestamp" -> IsoFormat(logEvent.timestamp)
          [] key = "id" -> logEvent.id
          [] key = "type" -> "CloudWatchLogs"
          [] key = "@message" -> logEvent.message
          [] key = "@owner" -> owner
          [] key = "@log_group" -> logGroup
          [] key = "@log_stream" -> logStream]

\* json.dumps(d).encode("utf-8"): the members of d in insertion order.
JsonDumps(d) == [i \in DOMAIN TransformKeys |-> <<TransformKeys[i], d[TransformKeys[i]]>>]

\* createRecordsFromLogEvents inserting every record at the front of the list.
RECURSIVE createRecordsFromLogEvents_Reversed(_, _, _, _)
createRecordsFromLogEvents_Reversed(logEvents, owner, logGroup, logStream) ==
    IF logEvents = <<>> THEN <<>>
    ELSE createRecordsFromLogEvents_Reversed(Tail(logEvents), owner, logGroup, logStream)
         \o <<[Data |-> JsonDumps(transformLogEvent(Head(logEvents), owner, logGroup, logStream))]>>

\* Lines 51-57: one {"Data": bytes} record per log event, in order.
RECURSIVE createRecordsFromLogEvents(_, _, _, _)
createRecordsFromLogEvents(logEvents, owner, logGroup, logStream) ==
    IF logEvents = <<>> THEN <<>>
    ELSE <<[Data |-> JsonDumps(transformLogEvent(Head(logEvents), owner, logGroup, logStream))]>>
         \o createRecordsFromLogEvents(Tail(logEvents), owner, logGroup, logStream)

Ids == {"1", "2"}
Timestamps == {0, 1, 1500, 61001, 86400000, 2000000000}
Messages == {"hello", "", "a\nb"}
Owners == {"acct1", "acct2"}
LogGroups == {"/app/log", "g2"}
LogStreams == {"stream1", "s2"}
RawEvents == [id : Ids, timestamp : Timestamps, message : Messages]

\* One call of transformLogEvent.
Transform ==
    /\ pc = "transform"
    /\ tOut' = transformLogEvent(tIn.logEvent, tIn.owner, tIn.logGroup, tIn.logStream)
    /\ pc' = "transformed"
    /\ UNCHANGED <<environ, loggerLevel, raised, event, streamName, k, rV, records,
                   attemptsMade, maxAttempts, response, failedRecords, errMsg, logged,
                   lastCall, calls, batch, allErr, allFailed, acked, started, delivered, tIn>>

(***************************************************************************)
(* The Firehose client, an external collaborator: put_record_batch either  *)
(* raises or returns a response with a FailedPutCount and one entry per    *)
(* submitted record. Nothing ties FailedPutCount to the entries.           *)
(***************************************************************************)
NoResponse == [none |-> TRUE]
ErrorCodes == {"ServiceUnavailableException"}
ResponseEntries ==
    {[RecordId |-> "r"], [ErrorCode |-> ""]} \cup {[ErrorCode |-> c] : c \in ErrorCodes}
FaultTexts == {"timeout"}

\* The counts a response to n records reports: any count up to n, and a count
\* of one for no record at all, since the count is the service's word.
ReportedCounts(n) == 0..(IF n = 0 THEN 1 ELSE n)

ClientOutcomes(n) ==
    {[raises |-> TRUE, text |-> t] : t \in FaultTexts}
    \cup {[raises |-> FALSE,
           value |-> [FailedPutCount |-> c, RequestResponses |-> rr]] :
            c \in ReportedCounts(n), rr \in [1..n -> ResponseEntries]}

\* NoErrorCode taking an empty code for an error.
NoErrorCode_AbsentOnly(res) == "ErrorCode" \notin DOMAIN res

\* 'ErrorCode' not in res or not res['ErrorCode']   (line 72)
NoErrorCode(res) == "ErrorCode" \notin DOMAIN res \/ res.ErrorCode = ""

EveryEntryHasCode(rr) == \A i \in DOMAIN rr : ~NoErrorCode(rr[i])

(***************************************************************************)
(* Retrying Delivery Coordinator: putRecordsToFirehoseStream.  The frames  *)
(* of the recursion do nothing after the recursive call, so only the       *)
(* innermost frame is kept: a return or an exception of the innermost      *)
(* frame is the return or the exception of the whole run.                  *)
(***************************************************************************)
NoErrMsg == [kind |-> "empty", detail |-> <<>>]

\* ScanResponses inserting every failed record at the front of the list.
RECURSIVE ScanResponses_Prepends(_, _, _, _, _)
ScanResponses_Prepends(requestResponses, recs, idx, codes, failed) ==
    IF idx > Len(requestResponses) THEN [codes |-> codes, failedRecords |-> failed]
    ELSE IF NoErrorCode(requestResponses[idx])
         THEN ScanResponses_Prepends(requestResponses, recs, idx + 1, codes, failed)
         ELSE ScanResponses_Prepends(requestResponses, recs, idx + 1,
                                     Append(codes, requestResponses[idx].ErrorCode),
                                     <<recs[idx]>> \o failed)

\* Lines 71-76 from index idx on: the codes and the failed records collected.
RECURSIVE ScanResponses(_, _, _, _, _)
ScanResponses(requestResponses, recs, idx, codes, failed) ==
    IF idx > Len(requestResponses) THEN [codes |-> codes, failedRecords |-> failed]
    ELSE IF NoErrorCode(requestResponses[idx])
         THEN ScanResponses(requestResponses, recs, idx + 1, codes, failed)
         ELSE ScanResponses(requestResponses, recs, idx + 1,
                            Append(codes, requestResponses[idx].ErrorCode),
                            Append(failed, recs[idx]))

\* ScansResponse reading the entries only from two reported failures on.
ScansResponse_FromTwo(failed, resp) ==
    failed = <<>> /\ resp # NoResponse /\ resp.FailedPutCount > 1

\* ScansResponse without its test of FailedPutCount.
ScansResponse_IgnoresCount(failed, resp) == failed = <<>> /\ resp # NoResponse

\* The condition of line 70.
ScansResponse(failed, resp) ==
    failed = <<>> /\ resp # NoResponse /\ resp.FailedPutCount > 0

\* HasBudget off by one: a round too many.
HasBudget_OffByOne(made, budget) == made + 1 <= budget

\* The condition of line 81.
HasBudget(made, budget) == made + 1 < budget

\* RetryRecords resubmitting the whole list of the round.
RetryRecords_WholeList(recs, failed) == recs

\* The records of the recursive call of line 83.
RetryRecords(recs, failed) == failed

\* Exhaustion swallowed: the error is logged and the run returns normally.
Exhausted_Returns(item) == IF item = 0 THEN "returned" ELSE "loop"

\* Line 87: the raise leaves the run, and processRecords and lambda_handler
\* with it, as none of them handles it.
Exhausted(item) == "raised"

\* HasFailed counting a fault as a failure even when no record was submitted.
HasFailed_OrFault(failed, resp) == Len(failed) > 0 \/ resp = NoResponse

\* The condition of line 80.
HasFailed(failed, resp) == Len(failed) > 0

\* ReportedAttempts with the attempts made before the round at hand.
ReportedAttempts_Before(made, budget) == made

\* The number of attempts the message of line 85 reports.
ReportedAttempts(made, budget) == budget

LogEntry(level, msg, detail) == [level |-> level, msg |-> msg, detail |-> detail]

\* Lines 60-68: the client call of one round.
PutRecordBatch ==
    /\ pc = "put"
    /\ \E outcome \in ClientOutcomes(Len(records)) :
          /\ IF outcome.raises
             THEN /\ response' = NoResponse
                  /\ failedRecords' = records
                  /\ errMsg' = [kind |-> "fault", detail |-> <<outcome.text>>]
             ELSE /\ response' = outcome.value
                  /\ failedRecords' = <<>>
                  /\ errMsg' = NoErrMsg
          /\ allErr' = (allErr /\ (outcome.raises
                                    \/ EveryEntryHasCode(outcome.value.RequestResponses)))
          /\ allFailed' = (allFailed /\ (outcome.raises
                                          \/ (/\ EveryEntryHasCode(outcome.value.RequestResponses)
                                              /\ outcome.value.FailedPutCount > 0)))
          /\ acked' = acked \cup (IF outcome.raises THEN {}
                                  ELSE {records[i] : i \in {j \in DOMAIN records :
                                          NoErrorCode(outcome.value.RequestResponses[j])}})
    /\ lastCall' = [DeliveryStreamName |-> streamName, Records |-> records, item |-> k]
    /\ calls' = calls + 1
    /\ pc' = "scan"
    /\ logged' = <<>>
    /\ UNCHANGED <<environ, loggerLevel, raised, event, streamName, k, rV, records,
                   attemptsMade, maxAttempts, batch, started, delivered, tIn, tOut>>

\* Lines 70-87: the scan of the response, then the retry, the error or the return.
HandleResponse ==
    /\ pc = "scan"
    /\ LET scanned == ScanResponses(response.RequestResponses, records, 1, <<>>, <<>>)
           scans == ScansResponse(failedRecords, response)
           failed == IF scans THEN scanned.failedRecords ELSE failedRecords
           msg == IF scans THEN [kind |-> "codes", detail |-> scanned.codes] ELSE errMsg
       IN IF HasFailed(failed, response)
          THEN IF HasBudget(attemptsMade, maxAttempts)
               THEN \* logger.warn, then the recursive call: a new frame
                    /\ logged' = <<LogEntry("WARNING", "retrying", msg)>>
                    /\ records' = RetryRecords(records, failed)
                    /\ attemptsMade' = attemptsMade + 1
                    /\ response' = NoResponse
                    /\ failedRecords' = <<>>
                    /\ errMsg' = NoErrMsg
                    /\ pc' = "put"
                    /\ UNCHANGED <<raised, k, delivered, calls, allErr, allFailed, acked>>
               ELSE \* logger.error, then raise RuntimeError
                    /\ logged' = <<LogEntry("ERROR", "could not put", msg)>>
                    /\ raised' = [type |-> "RuntimeError",
                                  attempts |-> ReportedAttempts(attemptsMade, maxAttempts),
                                  errMsg |-> msg]
                    /\ failedRecords' = failed
                    /\ errMsg' = msg
                    /\ pc' = Exhausted(k)
                    /\ UNCHANGED <<records, attemptsMade, response, k, delivered,
                                   calls, allErr, allFailed, acked>>
          ELSE \* the run returns: to its caller, or to the loop of processRecords,
               \* where the frame and its locals are gone
               /\ logged' = <<>>
               /\ IF k = 0
                  THEN /\ pc' = "returned"
                       /\ failedRecords' = failed
                       /\ errMsg' = msg
                       /\ UNCHANGED <<k, delivered, records, attemptsMade, response,
                                      calls, allErr, allFailed, acked>>
                  ELSE /\ pc' = "loop"
                       /\ k' = k + 1
                       /\ delivered' = delivered \cup {k}
                       /\ records' = <<>>
                       /\ attemptsMade' = 0
                       /\ response' = NoResponse
                       /\ failedRecords' = <<>>
                       /\ errMsg' = NoErrMsg
                       /\ calls' = 0
                       /\ allErr' = TRUE
                       /\ allFailed' = TRUE
                       /\ acked' = {}
               /\ UNCHANGED raised
    /\ UNCHANGED <<environ, loggerLevel, event, streamName, rV, maxAttempts, lastCall,
                   batch, started, tIn, tOut>>

(***************************************************************************)
(* Pipeline Orchestrator: lambda_handler and processRecords.               *)
(***************************************************************************)
\* str.split(sep) on a sequence of characters: the list of the pieces.
RECURSIVE SplitFrom(_, _, _, _)
SplitFrom(s, sep, i, piece) ==
    IF i > Len(s) THEN <<piece>>
    ELSE IF s[i] = sep THEN <<piece>> \o SplitFrom(s, sep, i + 1, <<>>)
         ELSE SplitFrom(s, sep, i + 1, Append(piece, s[i]))

Split(s, sep) == SplitFrom(s, sep, 1, <<>>)

\* The input item's data: base64 of gzip of JSON. What the three decoders
\* make of it is the blob's encoding; its payload is the parsed JSON.
DecodeError(blob) ==
    CASE blob.encoding = "bad_base64" -> "binascii.Error"
      [] blob.encoding = "bad_gzip" -> "BadGzipFile"
      [] blob.encoding = "bad_json" -> "JSONDecodeError"
      [] OTHER -> "none"

\* The key the code reads first that the parsed data lacks (lines 98-99), or "none".
MissingKey(data) ==
    IF "messageType" \notin DOMAIN data THEN "messageType"
    ELSE IF data.messageType # "DATA_MESSAGE" THEN "none"
    ELSE IF "logEvents" \notin DOMAIN data THEN "logEvents"
    ELSE IF "owner" \notin DOMAIN data THEN "owner"
    ELSE IF "logGroup" \notin DOMAIN data THEN "logGroup"
    ELSE IF "logStream" \notin DOMAIN data THEN "logStream"
    ELSE "none"

\* IsDataMessage without the filter: every message kind is delivered.
IsDataMessage_Any(data) == TRUE

RECURSIVE Flatten(_)
Flatten(lists) == IF lists = <<>> THEN <<>> ELSE Head(lists) \o Flatten(Tail(lists))

\* RunRecords handing over the records of every item taken so far.
RunRecords_Accumulated(all, firehoseRecords) == Flatten(all)

\* The records line 102 hands to the delivery run: those of the item at hand;
\* all is rV after line 101.
RunRecords(all, firehoseRecords) == firehoseRecords

\* The piece of the ARN taken as the stream name, the last one.
StreamNameOf_Last(parts) == parts[Len(parts)]

\* Line 110: the piece at index 1.
StreamNameOf(parts) == parts[2]

\* The condition of line 98.
IsDataMessage(data) == data.messageType = "DATA_MESSAGE"

EventA == [id |-> "1", timestamp |-> 0, message |-> "hello"]
EventB == [id |-> "2", timestamp |-> 1500, message |-> "world"]
EventC == [id |-> "3", timestamp |-> 61001, message |-> ""]
EventD == [id |-> "4", timestamp |-> 86400000, message |-> "hello"]
EventList == <<EventA, EventB, EventC, EventD>>

\* The log event lists of the model: the first n of EventList.
LogEventLists == {SubSeq(EventList, 1, n) : n \in 0..MaxEvents}

Batch(type, logEvents) ==
    [messageType |-> type, owner |-> "acct1", logGroup |-> "/app/log",
     logStream |-> "stream1", logEvents |-> logEvents]

Payloads ==
    {Batch("DATA_MESSAGE", l) : l \in LogEventLists}
    \cup {Batch("CONTROL_MESSAGE", <<>>)}
    \cup {[owner |-> "acct1"],
          [messageType |-> "DATA_MESSAGE", owner |-> "acct1", logGroup |-> "/app/log",
           logStream |-> "stream1"]}

InputItems ==
    {[data |-> [encoding |-> "ok", payload |-> p]] : p \in Payloads}
    \cup {[data |-> [encoding |-> e, payload |-> [owner |-> "acct1"]]] :
            e \in {"bad_base64", "bad_gzip", "bad_json"}}

Arns == {<<"d", "/", "s">>, <<"d">>}

Events ==
    [region : {"us-east-1"}, deliveryStreamArn : Arns,
     records : SeqsUpTo(InputItems, MaxItems)]

\* Lines 107-112, up to the call of processRecords and its line 90.
LambdaHandler ==
    /\ pc = "handler"
    /\ LET parts == Split(event.deliveryStreamArn, "/")
       IN IF Len(parts) < 2
          THEN /\ raised' = [type |-> "IndexError"]
               /\ pc' = "raised"
               /\ UNCHANGED <<streamName, k, rV>>
          ELSE /\ streamName' = StreamNameOf(parts)
               /\ rV' = <<>>
               /\ k' = 1
               /\ pc' = "loop"
               /\ UNCHANGED raised
    /\ logged' = <<LogEntry("DEBUG", "Event", NoErrMsg),
                   LogEntry("INFO", "Start processing event records.", NoErrMsg)>>
    /\ UNCHANGED <<environ, loggerLevel, event, records, attemptsMade, maxAttempts,
                   response, failedRecords, errMsg, lastCall, calls, batch, allErr,
                   allFailed, acked, started, delivered, tIn, tOut>>

\* Lines 91-102: one input item of the loop, up to the entry of the
\* delivery run started for it.
ProcessItem ==
    /\ pc = "loop"
    /\ k <= Len(event.records)
    /\ LET blob == event.records[k].data
           data == blob.payload
       IN IF DecodeError(blob) # "none"
          THEN /\ raised' = [type |-> DecodeError(blob)]
               /\ pc' = "raised"
               /\ logged' = <<>>
               /\ UNCHANGED <<k, rV, records, attemptsMade, maxAttempts, batch, started>>
          ELSE IF MissingKey(data) # "none"
          THEN /\ raised' = [type |-> "KeyError"]
               /\ pc' = "raised"
               /\ logged' = <<LogEntry("DEBUG", "data", NoErrMsg)>>
               /\ UNCHANGED <<k, rV, records, attemptsMade, maxAttempts, batch, started>>
          ELSE IF IsDataMessage(data)
          THEN LET firehoseRecords ==
                       createRecordsFromLogEvents(data.logEvents, data.owner,
                                                  data.logGroup, data.logStream)
               IN /\ rV' = Append(rV, firehoseRecords)
                  /\ records' = RunRecords(Append(rV, firehoseRecords), firehoseRecords)
                  /\ batch' = firehoseRecords
                  /\ attemptsMade' = 0
                  /\ maxAttempts' = DefaultMaxAttempts
                  /\ started' = [started EXCEPT ![k] = @ + 1]
                  /\ pc' = "put"
                  /\ logged' = <<LogEntry("DEBUG", "data", NoErrMsg),
                                 LogEntry("DEBUG", "firehoseRecords", NoErrMsg)>>
                  /\ UNCHANGED <<raised, k>>
          ELSE /\ k' = k + 1
               /\ logged' = <<LogEntry("DEBUG", "data", NoErrMsg)>>
               /\ UNCHANGED <<raised, pc, rV, records, attemptsMade, maxAttempts, batch,
                              started>>
    /\ UNCHANGED <<environ, loggerLevel, event, streamName, response, failedRecords,
                   errMsg, lastCall, calls, allErr, allFailed, acked, delivered, tIn, tOut>>

\* Lines 104 and 113-114: the loop is over, processRecords and the handler return.
Finish ==
    /\ pc = "loop"
    /\ k > Len(event.records)
    /\ pc' = "done"
    /\ logged' = <<LogEntry("INFO", "Finished processing event records.", NoErrMsg),
                   LogEntry("DEBUG", "Records", NoErrMsg)>>
    /\ UNCHANGED <<environ, loggerLevel, raised, event, streamName, k, rV, records,
                   attemptsMade, maxAttempts, response, failedRecords, errMsg, lastCall,
                   calls, batch, allErr, allFailed, acked, started, delivered, tIn, tOut>>

(***************************************************************************)
(* The specifications.                                                     *)
(***************************************************************************)
NoEvent == [region |-> "", deliveryStreamArn |-> <<>>, records |-> <<>>]
NoCall == [DeliveryStreamName |-> <<>>, Records |-> <<>>, item |-> 0]
NoTransformInput == [logEvent |-> EventA, owner |-> "", logGroup |-> "", logStream |-> ""]

\* What every specification starts from, apart from its own inputs.
Idle ==
    /\ loggerLevel = "INFO"
    /\ raised = NoException
    /\ streamName = <<>>
    /\ k = 0
    /\ rV = <<>>
    /\ attemptsMade = 0
    /\ response = NoResponse
    /\ failedRecords = <<>>
    /\ errMsg = NoErrMsg
    /\ logged = <<>>
    /\ lastCall = NoCall
    /\ calls = 0
    /\ allErr = TRUE
    /\ allFailed = TRUE
    /\ acked = {}
    /\ delivered = {}
    /\ tOut = <<>>

\* One invocation of lambda_handler.
Init ==
    /\ Idle
    /\ pc = "handler"
    /\ environ = <<>>
    /\ event \in Events
    /\ records = <<>>
    /\ batch = <<>>
    /\ maxAttempts = DefaultMaxAttempts
    /\ started = [i \in 1..Len(event.records) |-> 0]
    /\ tIn = NoTransformInput

Next ==
    \/ LambdaHandler
    \/ ProcessItem
    \/ PutRecordBatch
    \/ HandleResponse
    \/ Finish

Spec == Init /\ [][Next]_vars

\* One call of putRecordsToFirehoseStream(streamName, records, client, 0, maxAttempts).
RecordOf(e) == [Data |-> JsonDumps(transformLogEvent(e, "acct1", "/app/log", "stream1"))]
RecordLists == {[i \in 1..n |-> RecordOf(EventList[i])] : n \in 0..MaxRecords}

InitDeliver ==
    /\ Idle
    /\ pc = "put"
    /\ environ = <<>>
    /\ event = NoEvent
    /\ records \in RecordLists
    /\ batch = records
    /\ maxAttempts \in (-1..MaxBudget) \cup {DefaultMaxAttempts}
    /\ started = <<>>
    /\ tIn = NoTransformInput

NextDeliver ==
    \/ PutRecordBatch
    \/ HandleResponse

SpecDeliver == InitDeliver /\ [][NextDeliver]_vars

\* The initialisation of the module.
InitInit ==
    /\ Idle
    /\ pc = "import"
    /\ environ \in {<<>>} \cup {[name \in {"LOG_LEVEL"} |-> v] : v \in EnvValues}
    /\ event = NoEvent
    /\ records = <<>>
    /\ batch = <<>>
    /\ maxAttempts = DefaultMaxAttempts
    /\ started = <<>>
    /\ tIn = NoTransformInput

NextInit == ModuleInit

SpecInit == InitInit /\ [][NextInit]_vars

\* One call of transformLogEvent.
InitTransform ==
    /\ Idle
    /\ pc = "transform"
    /\ environ = <<>>
    /\ event = NoEvent
    /\ records = <<>>
    /\ batch = <<>>
    /\ maxAttempts = DefaultMaxAttempts
    /\ started = <<>>
    /\ tIn \in [logEvent : RawEvents, owner : Owners, logGroup : LogGroups,
                logStream : LogStreams]

NextTransform == Transform

SpecTransform == InitTransform /\ [][NextTransform]_vars

\* One invocation of lambda_handler, for any deliveryStreamArn and a few
\* record lists.
ExampleArn ==
    <<"a","r","n",":","a","w","s",":","f","i","r","e","h","o","s","e",":","u","s","-","e","a","s","t","-","1",":","1","2","3",":","d","e","l","i","v","e","r","y","s","t","r","e","a","m","/","m","y","-","s","t","r","e","a","m">>

ArnAlphabet == {"d", "/", "s"}
WideArns == {ExampleArn} \cup SeqsUpTo(ArnAlphabet, MaxArnLen)

DataItem(logEvents) == [data |-> [encoding |-> "ok", payload |-> Batch("DATA_MESSAGE", logEvents)]]
ControlItem == [data |-> [encoding |-> "ok", payload |-> Batch("CONTROL_MESSAGE", <<>>)]]

InitArn ==
    /\ Idle
    /\ pc = "handler"
    /\ environ = <<>>
    /\ event \in [region : {"us-east-1"}, deliveryStreamArn : WideArns,
                  records : {<<>>, <<DataItem(<<EventA>>)>>,
                             <<ControlItem, DataItem(<<EventA>>)>>}]
    /\ records = <<>>
    /\ batch = <<>>
    /\ maxAttempts = DefaultMaxAttempts
    /\ started = [i \in 1..Len(event.records) |-> 0]
    /\ tIn = NoTransformInput

NextArn ==
    \/ LambdaHandler
    \/ ProcessItem
    \/ PutRecordBatch
    \/ HandleResponse
    \/ Finish

SpecArn == InitArn /\ [][NextArn]_vars

\* One call of putRecordsToFirehoseStream that goes on as long as it can: the
\* code runs to its end, and a client call returns or raises.
SpecDeliverFair == SpecDeliver /\ WF_vars(NextDeliver)

(***************************************************************************)
(* The claims.                                                             *)
(***************************************************************************)
Items == event.records

\* Input item i decodes to a batch that has every key the code reads.
Decodes(i) ==
    /\ Items[i].data.encoding = "ok"
    /\ "messageType" \in DOMAIN Items[i].data.payload
    /\ Items[i].data.payload.messageType = "DATA_MESSAGE"
         => {"logEvents", "owner", "logGroup", "logStream"} \subseteq DOMAIN Items[i].data.payload

IsData(i) == Decodes(i) /\ Items[i].data.payload.messageType = "DATA_MESSAGE"
IsOther(i) == Decodes(i) /\ Items[i].data.payload.messageType # "DATA_MESSAGE"

\* The records of recs at the indices of I, in their order in recs.
RECURSIVE PickFrom(_, _, _)
PickFrom(recs, I, i) ==
    IF i > Len(recs) THEN <<>>
    ELSE (IF i \in I THEN <<recs[i]>> ELSE <<>>) \o PickFrom(recs, I, i + 1)

\* The records a round classifies as failed: all of them after a fault, those
\* whose entry has a non-empty error code after a response that reports failures.
ClassifiedFailed(recs, resp) ==
    IF resp = NoResponse THEN recs
    ELSE IF resp.FailedPutCount = 0 THEN <<>>
    ELSE PickFrom(recs,
                  {i \in DOMAIN resp.RequestResponses :
                     /\ "ErrorCode" \in DOMAIN resp.RequestResponses[i]
                     /\ resp.RequestResponses[i].ErrorCode # ""},
                  1)

\* C1 as stated: with a non-empty batch and maxAttempts >= 1, if every client
\* call raised or put a non-empty error code on every record, the run makes
\* exactly maxAttempts client calls and then raises RuntimeError; it never
\* returns.
C1_AsStated ==
    (batch # <<>> /\ maxAttempts >= 1 /\ allErr)
        => /\ pc # "returned"
           /\ calls <= maxAttempts
           /\ (pc = "raised" => raised.type = "RuntimeError" /\ calls = maxAttempts)

\* C1 amended: the same when every client call raised, or reported
\* FailedPutCount > 0 and a non-empty error code on every record. A run that is
\* not over has made fewer than maxAttempts calls or is about to raise.
C1_AllFailedExhausts ==
    (batch # <<>> /\ maxAttempts >= 1 /\ allFailed)
        => /\ pc # "returned"
           /\ calls <= maxAttempts
           /\ (pc = "put" => calls < maxAttempts)
           /\ (pc = "raised"
                 => /\ raised.type = "RuntimeError"
                    /\ calls = maxAttempts
                    /\ lastCall.Records = batch)

C1_Witness ==
    /\ pc = "raised"
    /\ allFailed
    /\ Len(batch) >= 2
    /\ maxAttempts = DefaultMaxAttempts
    /\ calls = DefaultMaxAttempts
    /\ response # NoResponse

\* C2: when the first client call returns a response with FailedPutCount = 0,
\* the next step of the run is its normal return: one client call, no retry, no
\* exception, nothing logged; whatever the batch, maxAttempts and the entries.
C2_ZeroFailuresOneCall ==
    [][(pc = "scan" /\ calls = 1 /\ response # NoResponse /\ response.FailedPutCount = 0)
         => (pc' = "returned" /\ calls' = 1 /\ attemptsMade' = 0
             /\ raised' = NoException /\ logged' = <<>>)]_vars

C2_Witness ==
    /\ pc = "returned"
    /\ calls = 1
    /\ Len(batch) >= 2
    /\ response # NoResponse
    /\ response.FailedPutCount = 0
    /\ ~NoErrorCode(response.RequestResponses[1])

\* C3: the records handed to the next round are exactly the records the round
\* classified as failed, and a round submits exactly the records it was handed.
C3_ResubmitsFailedOnly ==
    [][/\ (pc = "scan" /\ pc' = "put")
            => /\ records' = ClassifiedFailed(records, response)
               /\ records' # <<>>
               /\ attemptsMade' = attemptsMade + 1
       /\ (pc = "put" /\ pc' = "scan")
            => /\ lastCall'.Records = records
               /\ records' = records]_vars

\* Round 3 of a run started with <<A, B, C>> submits exactly <<B>>.
C3_Witness ==
    /\ batch = [i \in 1..3 |-> RecordOf(EventList[i])]
    /\ pc = "scan"
    /\ attemptsMade = 2
    /\ calls = 3
    /\ lastCall.Records = <<RecordOf(EventB)>>

\* C4: the step that takes an input item whose messageType is not DATA_MESSAGE
\* goes on to the next item: it appends nothing to rV, starts no delivery run,
\* makes no client call and raises nothing; and no client call is ever made for
\* such an item.
C4_OtherKindsAreSkipped ==
    /\ [](lastCall.item # 0 => IsData(lastCall.item))
    /\ [](\A i \in DOMAIN started : IsOther(i) => started[i] = 0 /\ i \notin delivered)
    /\ [][(pc = "loop" /\ k <= Len(Items) /\ IsOther(k))
            => /\ pc' = "loop"
               /\ k' = k + 1
               /\ rV' = rV
               /\ raised' = NoException
               /\ UNCHANGED <<lastCall, calls, records, started, delivered>>]_vars

\* A CONTROL_MESSAGE item was passed over and the item after it is in delivery.
C4_Witness ==
    /\ pc = "scan"
    /\ k = 2
    /\ IsOther(1)
    /\ Items[1].data.payload.messageType = "CONTROL_MESSAGE"
    /\ lastCall.item = 2

\* The round at hand has failed records and no attempt left.
Exhausts ==
    /\ pc = "scan"
    /\ ClassifiedFailed(records, response) # <<>>
    /\ attemptsMade + 1 >= maxAttempts

\* C5: the round that exhausts the budget of input item k ends the invocation
\* with a RuntimeError; nothing happens after an exception; at that point every
\* DATA_MESSAGE item before k has had its delivery run return normally, no item
\* after k has been touched; and a completed delivery is never undone.
C5_FailFast ==
    /\ [][Exhausts => (pc' = "raised" /\ raised'.type = "RuntimeError" /\ k' = k)]_vars
    /\ [][pc # "raised"]_vars
    /\ [][delivered \subseteq delivered']_vars
    /\ []((pc = "raised" /\ raised.type = "RuntimeError")
            => /\ k \notin delivered
               /\ started[k] = 1
               /\ \A i \in 1..(k - 1) : IsData(i) => i \in delivered
               /\ \A i \in (k + 1)..Len(Items) : started[i] = 0 /\ i \notin delivered
               /\ lastCall.item = k
               /\ Len(rV) = Cardinality({i \in 1..k : IsData(i)}))

\* Delivery of item 1 is exhausted while a DATA_MESSAGE item follows it.
C5_Witness ==
    /\ pc = "raised"
    /\ raised.type = "RuntimeError"
    /\ k = 1
    /\ Len(Items) = 2
    /\ IsData(2)
    /\ calls = DefaultMaxAttempts

DecodeErrors == {"binascii.Error", "BadGzipFile", "JSONDecodeError", "KeyError"}

\* C6 as stated: a decode failure of an input item does not keep the later
\* DATA_MESSAGE items of the invocation from being delivered: the invocation
\* never ends at a decode failure with a DATA_MESSAGE item after it.
C6_AsStated ==
    (pc = "raised" /\ raised.type \in DecodeErrors)
        => \A i \in (k + 1)..Len(Items) : ~IsData(i)

HasErrorEntry(entries) ==
    \E i \in DOMAIN entries : entries[i].level \in {"WARNING", "ERROR"}

\* C7 as stated: the step that meets a failure writes a log entry: a step that
\* raises logs it, and a round whose client call raised is followed by a retry
\* or a logged error.
C7_AsStated ==
    [][/\ (pc' = "raised" /\ pc \in {"loop", "scan"}) => HasErrorEntry(logged')
       /\ (pc = "scan" /\ response = NoResponse)
            => (pc' = "put" \/ pc' = "raised") /\ HasErrorEntry(logged')]_vars

\* The records the delivery run of input item i starts with: one per log event.
ExpectedRecords(i) ==
    LET data == Items[i].data.payload
    IN [j \in 1..Len(data.logEvents) |->
          [Data |-> JsonDumps(transformLogEvent(data.logEvents[j], data.owner,
                                                data.logGroup, data.logStream))]]

\* C8: a DATA_MESSAGE item that has been taken has had exactly one delivery run
\* started, no item more than one; the run's batch, and the records of its first
\* client call, are the transformations of the item's log events, in their order.
C8_OneRecordPerEvent ==
    /\ \A i \in DOMAIN started :
          /\ started[i] <= 1
          /\ (IsData(i) /\ (i < k \/ (i = k /\ pc # "loop"))) => started[i] = 1
          /\ (i > k \/ (i = k /\ pc = "loop")) => started[i] = 0
    /\ (pc \in {"put", "scan"})
          => /\ IsData(k)
             /\ batch = ExpectedRecords(k)
             /\ Len(batch) = Len(Items[k].data.payload.logEvents)
             /\ rV[Len(rV)] = batch
    /\ (pc = "put" /\ attemptsMade = 0) => records = ExpectedRecords(k)
    /\ (pc = "scan" /\ attemptsMade = 0) => lastCall.Records = ExpectedRecords(k)

C8_Witness ==
    /\ pc = "scan"
    /\ attemptsMade = 0
    /\ k = 2
    /\ Len(Items[2].data.payload.logEvents) = 2
    /\ lastCall.Records = ExpectedRecords(2)

\* C9 as stated: the record has exactly the fields timestamp, id, type, message,
\* owner, log_group, log_stream.
C9_AsStated ==
    pc = "transformed"
        => DOMAIN tOut = {"timestamp", "id", "type", "message", "owner", "log_group",
                          "log_stream"}

\* C9 amended: the record has exactly the fields timestamp, id, type, @message,
\* @owner, @log_group, @log_stream, with id = e.id, type = "CloudWatchLogs",
\* @message = e.message, @owner = owner, @log_group = logGroup and
\* @log_stream = logStream; the call changes nothing else.
C9_AtFields ==
    /\ [](pc = "transformed"
            => /\ DOMAIN tOut = {"timestamp", "id", "type", "@message", "@owner",
                                 "@log_group", "@log_stream"}
               /\ tOut["id"] = tIn.logEvent.id
               /\ tOut["type"] = "CloudWatchLogs"
               /\ tOut["@message"] = tIn.logEvent.message
               /\ tOut["@owner"] = tIn.owner
               /\ tOut["@log_group"] = tIn.logGroup
               /\ tOut["@log_stream"] = tIn.logStream)
    /\ [][pc = "transform" => (tIn' = tIn /\ logged' = logged /\ raised' = NoException)]_vars

C9_Witness ==
    /\ pc = "transformed"
    /\ tIn.logEvent.message = "a\nb"
    /\ tIn.owner = "acct2"
    /\ tIn.logGroup = "/app/log"
    /\ tOut["@message"] = "a\nb"

\* The level C10 gives the logger for a LOG_LEVEL setting.
ClaimedLevel(env) ==
    IF "LOG_LEVEL" \notin DOMAIN env THEN "INFO"
    ELSE LET v == Lower(env["LOG_LEVEL"])
         IN CASE v = <<"c","r","i","t","i","c","a","l">> -> "CRITICAL"
              [] v = <<"e","r","r","o","r">> -> "ERROR"
              [] v = <<"w","a","r","n">> -> "WARNING"
              [] v = <<"d","e","b","u","g">> -> "DEBUG"
              [] OTHER -> "INFO"

\* C10 as stated: the initialisation of the module never fails, and it leaves
\* the logger at the level named by LOG_LEVEL, whatever its case, and at INFO
\* when LOG_LEVEL is absent or names no level.
C10_AsStated ==
    pc # "import" => (pc = "imported" /\ loggerLevel = ClaimedLevel(environ))

HasSlash(arn) == \E i \in DOMAIN arn : arn[i] = "/"

\* The characters of arn after its first '/', up to its next '/' or its end.
SecondSegment(arn) ==
    LET first == CHOOSE i \in DOMAIN arn :
                    arn[i] = "/" /\ \A j \in 1..(i - 1) : arn[j] # "/"
        later == {i \in DOMAIN arn : i > first /\ arn[i] = "/"}
        stop == IF later = {} THEN Len(arn) + 1
                ELSE CHOOSE i \in later : \A j \in later : i <= j
    IN SubSeq(arn, first + 1, stop - 1)

\* C11: with a '/' in deliveryStreamArn, streamName is the piece after the first
\* '/' (up to the next one) and every client call names that stream; without a
\* '/' the invocation ends with an IndexError before any input item is taken and
\* before any client call.
C11_StreamNameIsSecondSegment ==
    LET arn == event.deliveryStreamArn
    IN /\ (HasSlash(arn) /\ pc # "handler")
            => streamName = SecondSegment(arn) /\ raised.type # "IndexError"
       /\ lastCall.item # 0
            => HasSlash(arn) /\ lastCall.DeliveryStreamName = SecondSegment(arn)
       /\ ~HasSlash(arn)
            => /\ pc \in {"handler", "raised"}
               /\ pc = "raised" => raised.type = "IndexError"
               /\ k = 0
               /\ calls = 0
               /\ lastCall = NoCall
               /\ rV = <<>>
               /\ \A i \in DOMAIN started : started[i] = 0

C11_Witness ==
    /\ event.deliveryStreamArn = ExampleArn
    /\ pc = "scan"
    /\ attemptsMade = 1
    /\ lastCall.DeliveryStreamName = <<"m","y","-","s","t","r","e","a","m">>

\* The indices of the entries of a response that carry a non-empty error code.
CodedIndices(resp) ==
    {i \in DOMAIN resp.RequestResponses :
       /\ "ErrorCode" \in DOMAIN resp.RequestResponses[i]
       /\ resp.RequestResponses[i].ErrorCode # ""}

Range(seq) == {seq[i] : i \in DOMAIN seq}

\* C12: after a response with FailedPutCount > 0 the failed records are the
\* records at the indices whose entry has a non-empty ErrorCode, in their order:
\* they are what the next round gets, or what the run fails with; with none of
\* them the run returns; a record whose entry has no or an empty ErrorCode is
\* not handed to the next round.
C12_FailedAreTheCodedEntries ==
    [][(pc = "scan" /\ response # NoResponse /\ response.FailedPutCount > 0)
         => LET coded == PickFrom(records, CodedIndices(response), 1)
            IN /\ coded = <<>> => pc' = "returned"
               /\ coded # <<>> => \/ pc' = "put" /\ records' = coded
                                  \/ pc' = "raised" /\ failedRecords' = coded
               /\ pc' = "put"
                    => \A i \in DOMAIN records :
                          i \notin CodedIndices(response) => records[i] \notin Range(records')]_vars

\* A run of one attempt fails with the first and the third of three records;
\* the entry of the second has an empty ErrorCode.
C12_Witness ==
    /\ pc = "raised"
    /\ Len(batch) = 3
    /\ response # NoResponse
    /\ response.FailedPutCount > 0
    /\ response.RequestResponses[2] = [ErrorCode |-> ""]
    /\ failedRecords = <<batch[1], batch[3]>>

\* C13 as stated: after a client call that raised, the run resubmits the same
\* record list when an attempt is left, and fails with RuntimeError otherwise.
C13_AsStated ==
    [][(pc = "scan" /\ response = NoResponse)
         => IF attemptsMade + 1 < maxAttempts
            THEN pc' = "put" /\ records' = records
            ELSE pc' = "raised" /\ raised'.type = "RuntimeError"]_vars

RECURSIVE IsSubSeq(_, _)
IsSubSeq(a, b) ==
    IF a = <<>> THEN TRUE
    ELSE IF b = <<>> THEN FALSE
    ELSE IF Head(a) = Head(b) THEN IsSubSeq(Tail(a), Tail(b))
    ELSE IsSubSeq(a, Tail(b))

\* C14: the records of a round, and of every client call, are an
\* order-preserving sub-list of the batch the run started with, and the records
\* handed to the next round are one of the records of the round at hand: the
\* list never grows.
C14_NeverGrows ==
    /\ [](/\ IsSubSeq(records, batch)
          /\ IsSubSeq(lastCall.Records, batch)
          /\ Len(records) <= Len(batch))
    /\ [][(pc = "scan" /\ pc' = "put")
            => IsSubSeq(records', records) /\ Len(records') <= Len(records)]_vars
    /\ [][(pc = "put" /\ pc' = "scan") => lastCall'.Records = records]_vars

\* Round 3 of a run started with three records submits the first and the third.
C14_Witness ==
    /\ pc = "scan"
    /\ Len(batch) = 3
    /\ attemptsMade = 2
    /\ lastCall.Records = <<batch[1], batch[3]>>

Terminal == pc \in {"returned", "raised"}

\* C15: a run ends, either returned or raised with RuntimeError, after at least
\* one and at most max(1, maxAttempts) client calls; a round with failed records
\* and an attempt left starts a new round; nothing happens after the end.
C15_Terminates ==
    /\ [](calls <= (IF maxAttempts > 1 THEN maxAttempts ELSE 1))
    /\ [](Terminal => calls >= 1)
    /\ [](pc = "returned" => raised = NoException)
    /\ [](pc = "raised" => raised.type = "RuntimeError")
    /\ [][~Terminal]_vars
    /\ [][(pc = "scan" /\ ClassifiedFailed(records, response) # <<>>
             /\ attemptsMade + 1 < maxAttempts)
            => (pc' = "put" /\ calls' = calls)]_vars
    /\ <>Terminal

\* A run with maxAttempts = 0 has raised after its one client call.
C15_Witness ==
    /\ pc = "raised"
    /\ maxAttempts = 0
    /\ calls = 1
    /\ batch # <<>>

\* The error codes of the entries of a response that carry one, in their order.
CodesOf(resp) ==
    PickFrom([i \in DOMAIN resp.RequestResponses |->
                IF i \in CodedIndices(resp) THEN resp.RequestResponses[i].ErrorCode ELSE ""],
             CodedIndices(resp), 1)

\* What the error of a run says of its final round: the text of the fault, or
\* the codes of the final response.
FinalRoundMsg ==
    IF response = NoResponse THEN [kind |-> "fault", detail |-> <<"timeout">>]
    ELSE [kind |-> "codes", detail |-> CodesOf(response)]

\* C16 as stated: the RuntimeError of an exhausted run carries the codes or the
\* fault text of the final round and, as its attempt count, the number of
\* client calls the run made.
C16_AsStated ==
    pc = "raised" => (raised.errMsg = FinalRoundMsg /\ raised.attempts = calls)

\* C16 amended: the RuntimeError carries the codes or the fault text of the
\* final round and, as its attempt count, maxAttempts: the number of client
\* calls made when maxAttempts >= 1; with maxAttempts <= 0 the run has made one
\* call.
C16_ReportsBudget ==
    pc = "raised"
        => /\ raised.errMsg = FinalRoundMsg
           /\ Len(raised.errMsg.detail) <= Len(lastCall.Records)
           /\ raised.attempts = maxAttempts
           /\ maxAttempts >= 1 => raised.attempts = calls
           /\ maxAttempts <= 0 => calls = 1

\* A run of three attempts on three records fails with the one code of its
\* third round.
C16_Witness ==
    /\ pc = "raised"
    /\ Len(batch) = 3
    /\ maxAttempts = 3
    /\ calls = 3
    /\ raised.attempts = 3
    /\ raised.errMsg = [kind |-> "codes", detail |-> <<"ServiceUnavailableException">>]
    /\ Len(lastCall.Records) = 2

\* A response that reports no failed record.
ReportsZero == response # NoResponse /\ response.FailedPutCount = 0

\* C17: in any round, a response with FailedPutCount = 0 skips the scan of its
\* entries (no failed record, no code collected), whatever codes the entries
\* carry, and the run returns with no retry, no log entry and no exception.
C17_ZeroCountSkipsScan ==
    /\ []((pc = "scan" /\ ReportsZero)
            => (failedRecords = <<>> /\ errMsg = NoErrMsg))
    /\ [][(pc = "scan" /\ ReportsZero)
            => (pc' = "returned" /\ calls' = calls /\ raised' = NoException
                /\ logged' = <<>> /\ lastCall' = lastCall)]_vars

\* A second round returns on a count of zero although every entry of its
\* response carries a code.
C17_Witness ==
    /\ pc = "returned"
    /\ attemptsMade >= 1
    /\ ReportsZero
    /\ Len(records) >= 2
    /\ EveryEntryHasCode(response.RequestResponses)

\* C18: the items are taken one after the other in input order (k only moves to
\* the next item, and only when no delivery run is in progress); every client
\* call is made for the item at hand, after which no earlier item gets a call
\* and no later item has been decoded; and the records of a call are records of
\* that one item, in their order: the batch of a run is made of the events of
\* the item at hand when the run starts, it stays what it is during the run, and
\* every call of the run carries a sub-list of it.
C18_ItemsInSequence ==
    /\ [][k' \in {k, k + 1}]_vars
    /\ [][k' # k => (pc \in {"handler", "loop", "scan"} /\ pc' = "loop")]_vars
    /\ [][(pc = "loop" /\ pc' = "put")
            => (k' = k /\ IsData(k) /\ batch' = ExpectedRecords(k))]_vars
    /\ [][(pc = "put" \/ pc = "scan") => (batch' = batch)]_vars
    /\ [][pc = "put"
            => /\ k' = k
               /\ calls' = calls + 1
               /\ lastCall'.item = k
               /\ IsSubSeq(lastCall'.Records, batch)]_vars
    /\ [][pc # "put" => lastCall' = lastCall]_vars
    /\ [](\A i \in DOMAIN started : i > k => (started[i] = 0 /\ i \notin delivered))
    /\ [](lastCall # NoCall => lastCall.item <= k)

\* A retry round of the second item, after the delivery of a first item that had
\* records of its own.
C18_Witness ==
    /\ pc = "scan"
    /\ k = 2
    /\ attemptsMade >= 1
    /\ 1 \in delivered
    /\ ExpectedRecords(1) # <<>>
    /\ lastCall.item = 2
    /\ lastCall.Records # <<>>

\* The count of a response agrees with its entries on whether a record failed.
\* A count that disagrees otherwise (positive, and not the number of the coded
\* entries, of which there is one at least) leaves the run what it is.
CountAgrees(resp) ==
    resp # NoResponse => (resp.FailedPutCount = 0 <=> CodedIndices(resp) = {})

\* C19: the records of a batch being told apart by their content, acked holds
\* the records a fault-free call of the run got an entry with no code for.  A
\* run that returns after responses whose counts agree with their entries has
\* every record of its batch in acked; and no call submits a record that is in
\* acked.
C19_AtLeastOnce ==
    /\ []((pc = "returned" /\ CountAgrees(response)) => Range(batch) \subseteq acked)
    /\ [](pc = "put" => Range(records) \cap acked = {})
    /\ [][pc = "put" => (Range(lastCall'.Records) \cap acked = {}
                         /\ acked \subseteq acked')]_vars
    /\ [][pc = "scan" => acked' = acked]_vars

\* A run of three records returns from its third round: every record has been
\* acknowledged, the last of them by the last response.
C19_Witness ==
    /\ pc = "returned"
    /\ attemptsMade = 2
    /\ Len(batch) = 3
    /\ response # NoResponse
    /\ response.FailedPutCount = 0
    /\ CodedIndices(response) = {}
    /\ Len(lastCall.Records) = 1
    /\ Range(batch) = acked

\* Input item i is a DATA_MESSAGE with no log event.
IsEmptyData(i) ==
    /\ i \in DOMAIN Items
    /\ IsData(i)
    /\ Items[i].data.payload.logEvents = <<>>

\* C20: a DATA_MESSAGE item with no log event starts a delivery run with the
\* empty list; the run makes one client call, with no record, and whatever the
\* call does, a fault included, the run returns to the loop, which goes on to the
\* next item: no retry, no exception and no log entry.
C20_EmptyListOneCall ==
    /\ [][(pc = "loop" /\ IsEmptyData(k))
            => (pc' = "put" /\ records' = <<>> /\ batch' = <<>> /\ calls' = 0
                /\ started'[k] = 1)]_vars
    /\ [][(pc = "put" /\ batch = <<>>)
            => (pc' = "scan" /\ calls' = 1 /\ lastCall'.Records = <<>>
                /\ lastCall'.DeliveryStreamName = streamName)]_vars
    /\ []((pc \in {"put", "scan"} /\ batch = <<>>) => (IsEmptyData(k) /\ attemptsMade = 0))
    /\ [][(pc = "scan" /\ batch = <<>>)
            => (pc' = "loop" /\ k' = k + 1 /\ delivered' = delivered \cup {k}
                /\ raised' = NoException /\ logged' = <<>> /\ lastCall' = lastCall)]_vars

\* The one call of the run of an item with no log event has raised a fault.
C20_Witness ==
    /\ pc = "scan"
    /\ IsEmptyData(k)
    /\ batch = <<>>
    /\ calls = 1
    /\ lastCall.Records = <<>>
    /\ response = NoResponse
    /\ errMsg.kind = "fault"

====
